---- MODULE Spec2Model ----
(***************************************************************************)
(* Zarr v2 read-only endpoints of tiled (tiled/server/zarr.py).            *)
(*                                                                         *)
(* Three specifications share the definitions below:                       *)
(*   Spec      one request in flight at a time, the full input space       *)
(*   SpecConc  NumReq requests interleaved at their suspension points      *)
(*   SpecConv  convert_chunks_for_zarr alone, on generated chunk specs     *)
(*                                                                         *)
(* Strings the code takes apart (the url, the block parameter, a child     *)
(* name) are sequences of one-character strings.  A JSON body is kept as   *)
(* the value that json.dumps is given; a block body is the sequence of     *)
(* array elements in the order of the bytes handed to the codec.           *)
(***************************************************************************)
EXTENDS Integers, Sequences, FiniteSets, TLC

\* ------------------------------------------------------------------------
\* Program constants
\* ------------------------------------------------------------------------
ZARR_BLOCK_SIZE == 10000

HTTP_200_OK == 200

HTTP_400_BAD_REQUEST == 400

HTTP_404_NOT_FOUND == 404

HTTP_500_INTERNAL_SERVER_ERROR == 500

\* ------------------------------------------------------------------------
\* Bounds of the model
\* ------------------------------------------------------------------------
\* longest block parameter, in characters
MaxBlockLen == 3

\* requests in flight together (SpecConc)
NumReq == 2

\* dimensions of a generated chunk spec (SpecConv)
MaxDims == 2

\* chunks along one dimension of a generated chunk spec (SpecConv)
MaxChunks == 2

\* ------------------------------------------------------------------------
\* Arithmetic and sequences
\* ------------------------------------------------------------------------
Min(a, b) == IF a <= b THEN a ELSE b

Max(a, b) == IF a >= b THEN a ELSE b

RECURSIVE SeqSum(_)
SeqSum(s) == IF s = << >> THEN 0 ELSE Head(s) + SeqSum(Tail(s))

RECURSIVE SeqProd(_)
SeqProd(s) == IF s = << >> THEN 1 ELSE Head(s) * SeqProd(Tail(s))

\* Python's max(a1, ..., an) over at least two arguments, left to right.
RECURSIVE PyMax(_)
PyMax(args) ==
    IF Len(args) = 1 THEN Head(args)
    ELSE LET m == PyMax(Tail(args)) IN IF Head(args) >= m THEN Head(args) ELSE m

\* ------------------------------------------------------------------------
\* convert_chunks_for_zarr
\* ------------------------------------------------------------------------
\* max(*tc, 1) with an empty tc is max(1): TypeError, 'int' is not iterable.
ConvertRaises(tiled_chunks) ==
    \E i \in 1..Len(tiled_chunks) : Len(tiled_chunks[i]) = 0

\* faulty variant: max(*tc) without the floor of 1
convert_chunks_no_floor(tiled_chunks) ==
    [i \in 1..Len(tiled_chunks) |->
        Min(ZARR_BLOCK_SIZE, PyMax(tiled_chunks[i]))]

convert_chunks_for_zarr(tiled_chunks) ==
    [i \in 1..Len(tiled_chunks) |->
        Min(ZARR_BLOCK_SIZE, PyMax(Append(tiled_chunks[i], 1)))]

\* ------------------------------------------------------------------------
\* Strings: str.split, str.rstrip, int()
\* ------------------------------------------------------------------------
Digits == <<"0", "1", "2", "3", "4", "5", "6", "7", "8", "9">>

IsDigit(c) == \E d \in 1..Len(Digits) : Digits[d] = c

DigitVal(c) == (CHOOSE d \in 1..Len(Digits) : Digits[d] = c) - 1

\* position of the first occurrence of c in s, 0 when there is none
FirstPos(s, c) ==
    IF \E i \in 1..Len(s) : s[i] = c
    THEN CHOOSE i \in 1..Len(s) : s[i] = c /\ \A j \in 1..(i - 1) : s[j] # c
    ELSE 0

\* s.split(c): always at least one piece
RECURSIVE PySplit(_, _)
PySplit(s, c) ==
    LET p == FirstPos(s, c) IN
    IF p = 0 THEN <<s>>
    ELSE <<SubSeq(s, 1, p - 1)>> \o PySplit(SubSeq(s, p + 1, Len(s)), c)

\* s.rstrip(c): every trailing c is removed
RECURSIVE PyRstrip(_, _)
PyRstrip(s, c) ==
    IF s # << >> /\ s[Len(s)] = c THEN PyRstrip(SubSeq(s, 1, Len(s) - 1), c) ELSE s

RECURSIVE DecimalVal(_)
DecimalVal(ds) ==
    IF ds = << >> THEN 0
    ELSE 10 * DecimalVal(SubSeq(ds, 1, Len(ds) - 1)) + DigitVal(ds[Len(ds)])

AllDigits(ds) == ds # << >> /\ \A i \in 1..Len(ds) : IsDigit(ds[i])

\* int(tok) raises ValueError unless tok is an optional sign and digits
IntRaises(tok) ==
    IF tok # << >> /\ tok[1] = "-" THEN ~AllDigits(Tail(tok)) ELSE ~AllDigits(tok)

PyInt(tok) ==
    IF tok[1] = "-" THEN 0 - DecimalVal(Tail(tok)) ELSE DecimalVal(tok)

\* ------------------------------------------------------------------------
\* Arrays: a shape and a value for each index tuple, 0-based.  A sparse
\* array (COO) holds its non-zero elements only.
\* ------------------------------------------------------------------------
MaxOf(shape) == IF shape = << >> THEN 0 ELSE PyMax(Append(shape, 0))

Indices(shape) ==
    {idx \in [1..Len(shape) -> 0..MaxOf(shape)] :
        \A i \in 1..Len(shape) : idx[i] < shape[i]}

\* position of idx in row-major (C) order, 0-based
RECURSIVE Ravel(_, _)
Ravel(shape, idx) ==
    IF shape = << >> THEN 0
    ELSE LET n == Len(shape) IN
         Ravel(SubSeq(shape, 1, n - 1), SubSeq(idx, 1, n - 1)) * shape[n] + idx[n]

\* the index tuple at row-major position k: the last axis varies fastest
RECURSIVE UnravelC(_, _)
UnravelC(shape, k) ==
    IF shape = << >> THEN << >>
    ELSE LET n == Len(shape) IN
         Append(UnravelC(SubSeq(shape, 1, n - 1), k \div shape[n]), k % shape[n])

EmptyArray == [shape |-> <<0>>, sparse |-> FALSE, data |-> << >>]

\* SparseArray.todense()
ToDense(a) ==
    [shape |-> a.shape, sparse |-> FALSE,
     data |-> [idx \in Indices(a.shape) |->
                  IF idx \in DOMAIN a.data THEN a.data[idx] ELSE 0]]

\* ------------------------------------------------------------------------
\* The entries the requests address (what SecureEntry resolves a path to)
\* ------------------------------------------------------------------------
Name(c) == <<c>>

GroupEntry(family, children) ==
    [family |-> family, dtype |-> "none", shape |-> << >>, chunks |-> << >>,
     children |-> children, metadata |-> "group_attrs",
     reader |-> "clip", codec_bytes |-> TRUE]

ArrayEntry(family, dtype, shape, chunks, children, reader, codec_bytes) ==
    [family |-> family, dtype |-> dtype, shape |-> shape, chunks |-> chunks,
     children |-> children, metadata |-> "array_attrs",
     reader |-> reader, codec_bytes |-> codec_bytes]

Catalog ==
    << GroupEntry("container", <<Name("a"), Name("b")>>),
       GroupEntry("container", << >>),
       GroupEntry("table", <<Name("x"), Name("y")>>),
       ArrayEntry("array", "struct", <<2>>, <<<<2>>>>, <<Name("u"), Name("v")>>,
                  "clip", TRUE),
       ArrayEntry("array", "builtin", << >>, << >>, << >>, "clip", TRUE),
       ArrayEntry("array", "builtin", <<0>>, <<<<0>>>>, << >>, "clip", TRUE),
       ArrayEntry("array", "builtin", <<25>>, <<<<10, 10, 5>>>>, << >>, "clip", TRUE),
       ArrayEntry("array", "builtin", <<25>>, <<<<10, 10, 5>>>>, << >>, "strict", TRUE),
       ArrayEntry("array", "builtin", <<4>>, <<<<2, 2>>>>, << >>, "clip", FALSE),
       ArrayEntry("array", "builtin", <<3, 2>>, <<<<2, 1>>, <<2>>>>, << >>, "clip", FALSE),
       ArrayEntry("sparse", "builtin", <<5>>, <<<<2, 2, 1>>>>, << >>, "clip", TRUE),
       ArrayEntry("sparse", "builtin", <<2, 3>>, <<<<1, 1>>, <<3>>>>, << >>, "strict", TRUE),
       ArrayEntry("array", "builtin", <<ZARR_BLOCK_SIZE + 1>>, <<<<ZARR_BLOCK_SIZE + 1>>>>,
                  << >>, "strict", TRUE) >>

EntryIds == 1..Len(Catalog)

\* the value stored at a logical index: distinct and non-zero in a dense
\* array, zero at every other position of a sparse one
StoredValue(e, idx) ==
    LET n == Ravel(e.shape, idx) IN
    IF e.family = "sparse" /\ n % 2 = 1 THEN 0 ELSE n + 1

\* ------------------------------------------------------------------------
\* The storage reader, entry.read(slice=...)
\* ------------------------------------------------------------------------
\* slice.indices(n) for one bound of a step-1 slice
SliceBound(v, n) == IF v < 0 THEN Max(v + n, 0) ELSE Min(v, n)

SliceLo(sl, n) == SliceBound(sl[1], n)

SliceLen(sl, n) == Max(0, SliceBound(sl[2], n) - SliceBound(sl[1], n))

\* a reader that checks the range raises IndexError for a slice that starts
\* outside the array (an empty axis is entered at 0)
ReaderRaises(e, slices) ==
    /\ e.reader = "strict"
    /\ \E i \in 1..Min(Len(slices), Len(e.shape)) :
          \/ slices[i][1] < 0
          \/ slices[i][1] >= e.shape[i] /\ ~(e.shape[i] = 0 /\ slices[i][1] = 0)

\* otherwise the slice is clipped to the array, as array slicing does; an axis
\* without a slice is read whole
ReaderReturns(e, slices) ==
    LET sl(i) == IF i <= Len(slices) THEN slices[i] ELSE <<0, e.shape[i]>>
        lens == [i \in 1..Len(e.shape) |-> SliceLen(sl(i), e.shape[i])]
        at(idx) == StoredValue(e,
                     [i \in 1..Len(e.shape) |-> SliceLo(sl(i), e.shape[i]) + idx[i]])
    IN  IF e.family = "sparse"
        THEN [shape |-> lens, sparse |-> TRUE,
              data |-> [idx \in {j \in Indices(lens) : at(j) # 0} |-> at(idx)]]
        ELSE [shape |-> lens, sparse |-> FALSE,
              data |-> [idx \in Indices(lens) |-> at(idx)]]

\* ------------------------------------------------------------------------
\* Requests
\* ------------------------------------------------------------------------
NoBlock == [present |-> FALSE, text |-> << >>]

BlockParam(text) == [present |-> TRUE, text |-> text]

BlockAlphabet == {"0", "1", "2", "-", ",", "x"}

BlockTexts == UNION {[1..n -> BlockAlphabet] : n \in 0..MaxBlockLen}

Blocks == {NoBlock} \cup {BlockParam(t) : t \in BlockTexts}

PlainUrl == <<"h", "/", "f">>

Urls ==
    { PlainUrl,
      <<"h", "/", "f", "/">>,
      <<"h", "/", "f", "?", "b">>,
      <<"h", "/", "f", "/", "/", "?", "b", "/">> }

Endpoints == {"zgroup", "zarray", "zattrs", "data"}

Request(endpoint, entry, url, block) ==
    [endpoint |-> endpoint, entry |-> entry, url |-> url, block |-> block]

NoRequest == Request("none", 1, << >>, NoBlock)

HasChildren(e) == e.family \in {"container", "table"} \/ e.dtype = "struct"

\* every request of the model: the url varies where it is used (a listing), the
\* block parameter on every data request
Requests ==
    {Request(ep, id, PlainUrl, NoBlock) :
        ep \in Endpoints \ {"data"}, id \in EntryIds}
    \cup {Request("data", id, PlainUrl, b) : id \in EntryIds, b \in Blocks}
    \cup {Request("data", id, u, b) :
            id \in {i \in EntryIds : HasChildren(Catalog[i])}, u \in Urls, b \in Blocks}

\* the requests that are interleaved in SpecConc
ConcRequests ==
    {Request(ep, id, PlainUrl, NoBlock) : ep \in {"zgroup", "zarray", "zattrs"}, id \in {4}}
    \cup {Request("data", 1, PlainUrl, NoBlock)}
    \cup {Request("data", id, PlainUrl, BlockParam(t)) :
            id \in {7, 8, 12},
            t \in {<<"2">>, <<"1", "0">>, <<"0", ",", "1">>}}

\* ------------------------------------------------------------------------
\* Responses
\* ------------------------------------------------------------------------
Response(status, kind) ==
    [status |-> status, kind |-> kind, chunks |-> << >>, shape |-> << >>,
     urls |-> << >>, elems |-> << >>, enc |-> "none", detail |-> "none"]

NoResponse == Response(0, "none")

\* raise HTTPException(status_code=...)
HTTPException(status, detail) == [Response(status, "error") EXCEPT !.detail = detail]

\* an exception no handler catches: the framework answers 500
Unhandled(exc) == HTTPException(HTTP_500_INTERNAL_SERVER_ERROR, exc)

\* ------------------------------------------------------------------------
\* SecureEntry(structure_families=...): the families an endpoint serves; an
\* entry of another family is answered not-found before the handler runs
\* ------------------------------------------------------------------------
StructureFamilies(endpoint) ==
    CASE endpoint = "zgroup" -> {"table", "container", "array"}
      [] endpoint = "zarray" -> {"array", "sparse"}
      [] endpoint = "zattrs" -> {"table", "container", "array"}
      [] endpoint = "data" -> {"array", "sparse", "table", "container"}

SecureEntryRejects(endpoint, e) == e.family \notin StructureFamilies(endpoint)

NotServed == HTTPException(HTTP_404_NOT_FOUND, "structure_family")

\* ------------------------------------------------------------------------
\* The metadata handlers
\* ------------------------------------------------------------------------
IsStructDtype(e) == e.dtype = "struct"

\* faulty variant: the dtype of the array is not looked at
AnyArrayIsPlain(e) == e.family = "array"

\* "Usual (unstructured) array; should respond to /.zarray instead"
IsPlainArray(e) == e.family = "array" /\ ~IsStructDtype(e)

get_zarr_group_metadata(e) ==
    IF IsPlainArray(e) THEN HTTPException(HTTP_404_NOT_FOUND, "none")
    ELSE Response(HTTP_200_OK, "zgroup")

get_zarr_array_metadata(e) ==
    IF IsStructDtype(e) THEN HTTPException(HTTP_404_NOT_FOUND, "none")
    ELSE IF ConvertRaises(e.chunks)
    THEN HTTPException(HTTP_500_INTERNAL_SERVER_ERROR, "TypeError")
    ELSE [Response(HTTP_200_OK, "zarray") EXCEPT
            !.chunks = convert_chunks_for_zarr(e.chunks), !.shape = e.shape]

get_zarr_attrs(e) ==
    IF IsPlainArray(e) THEN HTTPException(HTTP_404_NOT_FOUND, "none")
    ELSE [Response(HTTP_200_OK, "zattrs") EXCEPT !.detail = e.metadata]

\* ------------------------------------------------------------------------
\* get_zarr_array: the listing and the block of an array
\* ------------------------------------------------------------------------
\* faulty variant: the query string is kept
UrlWithQuery(url) == PyRstrip(url, "/")

\* str(request.url).split("?")[0].rstrip("/")
BaseUrl(url) == PyRstrip(PySplit(url, "?")[1], "/")

\* [url + "/" + key for key in keys]
ListingBody(url, names) == [i \in 1..Len(names) |-> url \o <<"/">> \o names[i]]

\* faulty variant: the block parameter is looked at before the structured dtype
BlockBeforeListing(e, block) ==
    IF block.present /\ e.family \in {"array", "sparse"} THEN "block"
    ELSE IF HasChildren(e) THEN "listing"
    ELSE "whole"

\* the if / elif chain on the structure family
DataBranch(e, block) ==
    IF e.family = "container" THEN "listing"
    ELSE IF e.family = "table" THEN "listing"
    ELSE IF e.family = "array" /\ IsStructDtype(e) THEN "listing"
    ELSE IF block.present THEN "block"
    ELSE "whole"

\* faulty variant: no exception for the scalar
LengthsDiffer(zarr_block_spec, zarr_block_indx) ==
    Len(zarr_block_spec) # Len(zarr_block_indx)

\* "Not a scalar and shape doesn't match"
BlockIndexInconsistent(zarr_block_spec, zarr_block_indx) ==
    /\ ~(zarr_block_spec = << >> /\ zarr_block_indx = <<0>>)
    /\ Len(zarr_block_spec) # Len(zarr_block_indx)

\* slice(i * c, (i + 1) * c) for i, c in zip(indx, spec)
block_slices(zarr_block_indx, zarr_block_spec) ==
    [d \in 1..Min(Len(zarr_block_indx), Len(zarr_block_spec)) |->
        <<zarr_block_indx[d] * zarr_block_spec[d],
          (zarr_block_indx[d] + 1) * zarr_block_spec[d]>>]

\* max(0, sl.stop - sh) for sl, sh in zip(block_slices, shape)
padding_size(slices, shape) ==
    [d \in 1..Min(Len(slices), Len(shape)) |-> Max(0, slices[d][2] - shape[d])]

\* faulty variant: the zeros are put before the data
NpPadFront(array, pads) ==
    LET newshape == [d \in 1..Len(array.shape) |-> array.shape[d] + pads[d]] IN
    [shape |-> newshape, sparse |-> FALSE,
     data |-> [idx \in Indices(newshape) |->
                 IF \A d \in 1..Len(pads) : idx[d] >= pads[d]
                 THEN array.data[[d \in 1..Len(pads) |-> idx[d] - pads[d]]]
                 ELSE 0]]

\* np.pad(array, [(0, p) for p in padding_size], mode="constant")
NpPad(array, pads) ==
    LET newshape == [d \in 1..Len(array.shape) |-> array.shape[d] + pads[d]] IN
    [shape |-> newshape, sparse |-> FALSE,
     data |-> [idx \in Indices(newshape) |->
                 IF idx \in DOMAIN array.data THEN array.data[idx] ELSE 0]]

\* the elements in the order of the buffer of a C-contiguous array
FlattenC(array) ==
    [k \in 1..SeqProd(array.shape) |-> array.data[UnravelC(array.shape, k - 1)]]

\* zarr_codec.encode(array), or array.tobytes(order="A") of the C-contiguous
\* array when the codec does not return bytes
EncodeBody(e, array) ==
    [Response(HTTP_200_OK, "block") EXCEPT
        !.elems = FlattenC(array),
        !.enc = IF e.codec_bytes THEN "blosc" ELSE "raw"]

NoLocal == [url |-> << >>, indx |-> << >>, spec |-> << >>, slices |-> << >>,
            array |-> EmptyArray]

\* get_zarr_array up to its await: the response, or the slices to read
BeforeRead(rq) ==
    LET e == Catalog[rq.entry]
        url == BaseUrl(rq.url)
        branch == DataBranch(e, rq.block)
        toks == PySplit(rq.block.text, ",")
        indx == [i \in 1..Len(toks) |-> PyInt(toks[i])]
        spec == convert_chunks_for_zarr(e.chunks)
        loc == [NoLocal EXCEPT !.url = url]
    IN  IF branch = "listing"
        THEN [reads |-> FALSE, local |-> loc,
              resp |-> [Response(HTTP_200_OK, "list") EXCEPT
                           !.urls = ListingBody(url, e.children)]]
        ELSE IF branch = "whole"
        THEN [reads |-> FALSE, local |-> loc,
              resp |-> Response(HTTP_200_OK, "empty_object")]
        ELSE IF \E i \in 1..Len(toks) : IntRaises(toks[i])
        THEN [reads |-> FALSE, local |-> loc, resp |-> Unhandled("ValueError")]
        ELSE IF ConvertRaises(e.chunks)
        THEN [reads |-> FALSE, local |-> [loc EXCEPT !.indx = indx],
              resp |-> Unhandled("TypeError")]
        ELSE IF BlockIndexInconsistent(spec, indx)
        THEN [reads |-> FALSE, local |-> [loc EXCEPT !.indx = indx, !.spec = spec],
              resp |-> HTTPException(HTTP_400_BAD_REQUEST, "inconsistent")]
        ELSE [reads |-> TRUE,
              local |-> [loc EXCEPT !.indx = indx, !.spec = spec,
                                    !.slices = block_slices(indx, spec)],
              resp |-> NoResponse]

\* get_zarr_array after the read returned `fetched`: densify, pad, encode
AfterRead(rq, slices, fetched) ==
    LET e == Catalog[rq.entry]
        dense == IF fetched.sparse THEN ToDense(fetched) ELSE fetched
        pads == padding_size(slices, e.shape)
        array == IF SeqSum(pads) > 0 THEN NpPad(dense, pads) ELSE dense
    IN  [array |-> array, resp |-> EncodeBody(e, array)]

\* ------------------------------------------------------------------------
\* State
\* ------------------------------------------------------------------------
VARIABLES
    pc,     \* per request slot: "idle", "recv", "await_read", "done"
    req,    \* the request a slot handles
    local,  \* the handler's local variables
    rd,     \* the storage read a handler awaits: its state and its result
    resp,   \* the response of the handler
    conv    \* SpecConv: a chunk spec and what convert_chunks_for_zarr made of it

vars == <<pc, req, local, rd, resp, conv>>

Slots == 1..NumReq

NoRead == [state |-> "none", array |-> EmptyArray]

ConvOff == [stage |-> "off", chunks |-> << >>, result |-> << >>]

Init ==
    /\ pc = [r \in Slots |-> "idle"]
    /\ req = [r \in Slots |-> NoRequest]
    /\ local = [r \in Slots |-> NoLocal]
    /\ rd = [r \in Slots |-> NoRead]
    /\ resp = [r \in Slots |-> NoResponse]
    /\ conv = ConvOff

\* ------------------------------------------------------------------------
\* Actions: a handler runs without interruption from one await to the next
\* ------------------------------------------------------------------------
\* a request arrives
Receive(r, inputs) ==
    /\ pc[r] = "idle"
    /\ \E rq \in inputs : req' = [req EXCEPT ![r] = rq]
    /\ pc' = [pc EXCEPT ![r] = "recv"]
    /\ UNCHANGED <<local, rd, resp, conv>>

Finish(r, response) ==
    /\ resp' = [resp EXCEPT ![r] = response]
    /\ pc' = [pc EXCEPT ![r] = "done"]

GetZarrGroupMetadata(r) ==
    /\ pc[r] = "recv"
    /\ req[r].endpoint = "zgroup"
    /\ Finish(r, IF SecureEntryRejects("zgroup", Catalog[req[r].entry]) THEN NotServed
                 ELSE get_zarr_group_metadata(Catalog[req[r].entry]))
    /\ UNCHANGED <<req, local, rd, conv>>

GetZarrArrayMetadata(r) ==
    /\ pc[r] = "recv"
    /\ req[r].endpoint = "zarray"
    /\ Finish(r, IF SecureEntryRejects("zarray", Catalog[req[r].entry]) THEN NotServed
                 ELSE get_zarr_array_metadata(Catalog[req[r].entry]))
    /\ UNCHANGED <<req, local, rd, conv>>

GetZarrAttrs(r) ==
    /\ pc[r] = "recv"
    /\ req[r].endpoint = "zattrs"
    /\ Finish(r, IF SecureEntryRejects("zattrs", Catalog[req[r].entry]) THEN NotServed
                 ELSE get_zarr_attrs(Catalog[req[r].entry]))
    /\ UNCHANGED <<req, local, rd, conv>>

\* get_zarr_array from its start to its await of entry.read, or to its return
GetZarrArray(r) ==
    /\ pc[r] = "recv"
    /\ req[r].endpoint = "data"
    /\ IF SecureEntryRejects("data", Catalog[req[r].entry])
       THEN Finish(r, NotServed) /\ UNCHANGED <<local, rd>>
       ELSE LET b == BeforeRead(req[r]) IN
            /\ local' = [local EXCEPT ![r] = b.local]
            /\ IF b.reads
               THEN /\ pc' = [pc EXCEPT ![r] = "await_read"]
                    /\ rd' = [rd EXCEPT ![r] = [state |-> "pending", array |-> EmptyArray]]
                    /\ UNCHANGED resp
               ELSE Finish(r, b.resp) /\ UNCHANGED rd
    /\ UNCHANGED <<req, conv>>

\* the storage reader completes the read: it returns the array or raises
ReadFinish(r) ==
    /\ pc[r] = "await_read"
    /\ rd[r].state = "pending"
    /\ rd' = [rd EXCEPT ![r] =
                IF ReaderRaises(Catalog[req[r].entry], local[r].slices)
                THEN [state |-> "raised", array |-> EmptyArray]
                ELSE [state |-> "returned",
                      array |-> ReaderReturns(Catalog[req[r].entry], local[r].slices)]]
    /\ UNCHANGED <<pc, req, local, resp, conv>>

\* faulty variant: the handler goes on without awaiting the read
ReadNotAwaited(r) == pc[r] = "await_read"

\* `await ensure_awaitable(entry.read, ...)`: the handler goes on once the read
\* is over
ReadCompleted(r) == pc[r] = "await_read" /\ rd[r].state # "pending"

\* faulty variant: the read result is kept in one place for all requests
AwaitedArrayShared(r) == rd[1].array

\* `array = await ...`: the value the read of this request returned
AwaitedArray(r) == rd[r].array

\* get_zarr_array from the end of its await to its return
GetZarrArrayResume(r) ==
    /\ ReadCompleted(r)
    /\ IF rd[r].state = "raised"
       THEN /\ Finish(r, HTTPException(HTTP_400_BAD_REQUEST, "out_of_range"))
            /\ UNCHANGED local
       ELSE LET a == AfterRead(req[r], local[r].slices, AwaitedArray(r)) IN
            /\ local' = [local EXCEPT ![r].array = a.array]
            /\ Finish(r, a.resp)
    /\ UNCHANGED <<req, rd, conv>>

\* the response is sent and the slot is free again
Respond(r) ==
    /\ pc[r] = "done"
    /\ pc' = [pc EXCEPT ![r] = "idle"]
    /\ req' = [req EXCEPT ![r] = NoRequest]
    /\ local' = [local EXCEPT ![r] = NoLocal]
    /\ rd' = [rd EXCEPT ![r] = NoRead]
    /\ resp' = [resp EXCEPT ![r] = NoResponse]
    /\ UNCHANGED conv

Next ==
    \E r \in {1} :
        \/ Receive(r, Requests)
        \/ GetZarrGroupMetadata(r)
        \/ GetZarrArrayMetadata(r)
        \/ GetZarrAttrs(r)
        \/ GetZarrArray(r)
        \/ ReadFinish(r)
        \/ GetZarrArrayResume(r)
        \/ Respond(r)

Spec == Init /\ [][Next]_vars

NextConc ==
    \E r \in Slots :
        \/ Receive(r, ConcRequests)
        \/ GetZarrGroupMetadata(r)
        \/ GetZarrArrayMetadata(r)
        \/ GetZarrAttrs(r)
        \/ GetZarrArray(r)
        \/ ReadFinish(r)
        \/ GetZarrArrayResume(r)
        \/ Respond(r)

SpecConc == Init /\ [][NextConc]_vars

\* ------------------------------------------------------------------------
\* convert_chunks_for_zarr on generated chunk specs
\* ------------------------------------------------------------------------
ChunkLens == {0, 2, ZARR_BLOCK_SIZE + 1}

DimChunks == UNION {[1..n -> ChunkLens] : n \in 0..MaxChunks}

ChunkSpecs == UNION {[1..d -> DimChunks] : d \in 0..MaxDims}

InitConv ==
    /\ pc = [r \in Slots |-> "idle"]
    /\ req = [r \in Slots |-> NoRequest]
    /\ local = [r \in Slots |-> NoLocal]
    /\ rd = [r \in Slots |-> NoRead]
    /\ resp = [r \in Slots |-> NoResponse]
    /\ \E c \in ChunkSpecs : conv = [stage |-> "call", chunks |-> c, result |-> << >>]

Convert ==
    /\ conv.stage = "call"
    /\ conv' = IF ConvertRaises(conv.chunks)
               THEN [conv EXCEPT !.stage = "raised"]
               ELSE [conv EXCEPT !.stage = "returned",
                                 !.result = convert_chunks_for_zarr(conv.chunks)]
    /\ UNCHANGED <<pc, req, local, rd, resp>>

NextConv == Convert

SpecConv == InitConv /\ [][NextConv]_vars

\* ------------------------------------------------------------------------
\* A request served with nothing else in flight
\* ------------------------------------------------------------------------
ServedAlone(rq) ==
    LET e == Catalog[rq.entry]
        b == BeforeRead(rq)
    IN  IF SecureEntryRejects(rq.endpoint, e) THEN NotServed
        ELSE IF rq.endpoint = "zgroup" THEN get_zarr_group_metadata(e)
        ELSE IF rq.endpoint = "zarray" THEN get_zarr_array_metadata(e)
        ELSE IF rq.endpoint = "zattrs" THEN get_zarr_attrs(e)
        ELSE IF ~b.reads THEN b.resp
        ELSE IF ReaderRaises(e, b.local.slices)
        THEN HTTPException(HTTP_400_BAD_REQUEST, "out_of_range")
        ELSE AfterRead(rq, b.local.slices, ReaderReturns(e, b.local.slices)).resp

TypeOK ==
    /\ \A r \in Slots : pc[r] \in {"idle", "recv", "await_read", "done"}
    /\ \A r \in Slots : rd[r].state \in {"none", "pending", "returned", "raised"}

\* ------------------------------------------------------------------------
\* Vocabulary of the properties
\* ------------------------------------------------------------------------
Entry(r) == Catalog[req[r].entry]

Done(r) == pc[r] = "done"

GroupLike(e) ==
    e.family \in {"container", "table"} \/ (e.family = "array" /\ e.dtype = "struct")

ArrayLike(e) ==
    (e.family = "array" /\ e.dtype = "builtin") \/ e.family = "sparse"

BlockRequest(r) == req[r].endpoint = "data" /\ req[r].block.present

SetMax(S) == CHOOSE m \in S : \A x \in S : x <= m

\* UniformBlockShape[i] = min(MAX_BLOCK, max(ChunkSpec[i] entries, 1))
UniformBlockShape(chunks) ==
    [i \in 1..Len(chunks) |->
        Min(ZARR_BLOCK_SIZE,
            SetMax({chunks[i][j] : j \in 1..Len(chunks[i])} \cup {1}))]

\* every entry has ShapeSpec[i] = sum(ChunkSpec[i])
CatalogOK ==
    \A id \in EntryIds :
        /\ Len(Catalog[id].shape) = Len(Catalog[id].chunks)
        /\ \A i \in 1..Len(Catalog[id].shape) :
              /\ Catalog[id].shape[i] = SeqSum(Catalog[id].chunks[i])
              /\ Len(Catalog[id].chunks[i]) >= 1

Components(r) == PySplit(req[r].block.text, ",")

\* every component of the block parameter is a non-negative integer
WellFormed(r) == \A i \in 1..Len(Components(r)) : AllDigits(Components(r)[i])

\* every component is an integer, a negative one included
Integral(r) == \A i \in 1..Len(Components(r)) : ~IntRaises(Components(r)[i])

Coordinate(r) == [i \in 1..Len(Components(r)) |-> PyInt(Components(r)[i])]

ScalarException(r) == Entry(r).chunks = << >> /\ Coordinate(r) = <<0>>

LengthMismatch(r) ==
    Len(Coordinate(r)) # Len(Entry(r).chunks) /\ ~ScalarException(r)

\* the coordinate addresses a block that starts inside the array (the one
\* block of an empty axis starts at 0)
InsideGrid(r) ==
    LET B == UniformBlockShape(Entry(r).chunks) IN
    \A i \in 1..Len(B) :
        \/ Coordinate(r)[i] * B[i] < Entry(r).shape[i]
        \/ Entry(r).shape[i] = 0 /\ Coordinate(r)[i] = 0

\* ------------------------------------------------------------------------
\* C1: every block that is answered 200 has exactly UniformBlockShape
\* elements in every dimension.
\* ------------------------------------------------------------------------
C1_ServedBlockIsUniform ==
    \A r \in Slots :
        (Done(r) /\ BlockRequest(r) /\ resp[r].kind = "block") =>
            /\ local[r].array.shape = UniformBlockShape(Entry(r).chunks)
            /\ Len(resp[r].elems) = SeqProd(UniformBlockShape(Entry(r).chunks))

\* ------------------------------------------------------------------------
\* C2: .zgroup answers the group marker exactly for Container, Table and
\* Array with a structured dtype, .zarray answers the descriptor exactly for
\* Array with a primitive dtype and SparseArray; every other entry is
\* answered not-found.
\* ------------------------------------------------------------------------
C2_MetadataClassification ==
    \A r \in Slots :
        Done(r) =>
            /\ req[r].endpoint = "zgroup" =>
                  IF GroupLike(Entry(r))
                  THEN resp[r] = Response(HTTP_200_OK, "zgroup")
                  ELSE resp[r].status = HTTP_404_NOT_FOUND /\ resp[r].kind = "error"
            /\ req[r].endpoint = "zarray" =>
                  IF ArrayLike(Entry(r))
                  THEN /\ resp[r].status = HTTP_200_OK
                       /\ resp[r].kind = "zarray"
                       /\ resp[r].chunks = UniformBlockShape(Entry(r).chunks)
                       /\ resp[r].shape = Entry(r).shape
                  ELSE resp[r].status = HTTP_404_NOT_FOUND /\ resp[r].kind = "error"

C2_Witness ==
    \E r \in Slots :
        /\ Done(r)
        /\ req[r].endpoint = "zgroup"
        /\ Entry(r).family = "array"
        /\ Entry(r).dtype = "struct"
        /\ resp[r] = Response(HTTP_200_OK, "zgroup")

\* ------------------------------------------------------------------------
\* C3 as stated: a data request with a block coordinate on a GroupLike entry
\* is answered not-found.
\* ------------------------------------------------------------------------
C3_BlockOnGroupNotFound ==
    \A r \in Slots :
        (Done(r) /\ BlockRequest(r) /\ GroupLike(Entry(r))) =>
            resp[r].status = HTTP_404_NOT_FOUND

\* C3 amended: a data request with a block coordinate on a GroupLike entry
\* is answered 200 with the listing of the entry's children, the same as
\* without the coordinate; the storage is not read and no block is returned.
C3_BlockOnGroupIsListing ==
    \A r \in Slots :
        (Done(r) /\ BlockRequest(r) /\ GroupLike(Entry(r))) =>
            /\ resp[r].status = HTTP_200_OK
            /\ resp[r].kind = "list"
            /\ Len(resp[r].urls) = Len(Entry(r).children)
            /\ resp[r] = ServedAlone([req[r] EXCEPT !.block = NoBlock])
            /\ resp[r].elems = << >>
            /\ rd[r].state = "none"

C3_Witness ==
    \E r \in Slots :
        /\ Done(r)
        /\ BlockRequest(r)
        /\ req[r].block.text = <<"0">>
        /\ Entry(r).family = "array"
        /\ Entry(r).dtype = "struct"
        /\ resp[r].kind = "list"
        /\ Len(resp[r].urls) = 2

\* ------------------------------------------------------------------------
\* C4: a block request on an ArrayLike entry whose coordinate is malformed
\* or out of range is answered bad-request.
\* ------------------------------------------------------------------------
C4_BadCoordinateIsBadRequest ==
    \A r \in Slots :
        (Done(r) /\ BlockRequest(r) /\ ArrayLike(Entry(r))) =>
            /\ ~WellFormed(r) => resp[r].status = HTTP_400_BAD_REQUEST
            /\ (WellFormed(r) /\ ~LengthMismatch(r) /\ ~InsideGrid(r)) =>
                  resp[r].status = HTTP_400_BAD_REQUEST
            /\ rd[r].state = "raised" => resp[r].status = HTTP_400_BAD_REQUEST

\* ------------------------------------------------------------------------
\* C5 as stated: a block request on an ArrayLike entry is answered
\* bad-request if and only if the coordinate's length differs from the
\* length of UniformBlockShape and it is not the scalar exception.
\* ------------------------------------------------------------------------
C5_BadRequestIffLengthMismatch ==
    \A r \in Slots :
        (Done(r) /\ BlockRequest(r) /\ ArrayLike(Entry(r)) /\ Integral(r)) =>
            (resp[r].status = HTTP_400_BAD_REQUEST <=> LengthMismatch(r))

\* C5 amended: a block request on an ArrayLike entry with an integer
\* coordinate is answered bad-request without a storage read if and only if
\* the lengths differ and it is not the scalar exception, and then no block
\* is returned; any other bad-request follows a read that raised.
C5_RejectedBeforeReadIffLengthMismatch ==
    \A r \in Slots :
        (Done(r) /\ BlockRequest(r) /\ ArrayLike(Entry(r)) /\ Integral(r)) =>
            /\ (resp[r].status = HTTP_400_BAD_REQUEST /\ rd[r].state = "none")
                  <=> LengthMismatch(r)
            /\ LengthMismatch(r) =>
                  /\ resp[r].kind = "error"
                  /\ resp[r].elems = << >>
                  /\ local[r].array = EmptyArray
            /\ (resp[r].status = HTTP_400_BAD_REQUEST /\ rd[r].state # "none") =>
                  rd[r].state = "raised"

C5_Witness ==
    \E r \in Slots :
        /\ Done(r)
        /\ BlockRequest(r)
        /\ Entry(r).shape = <<25>>
        /\ req[r].block.text = <<"0", ",", "1">>
        /\ resp[r].status = HTTP_400_BAD_REQUEST
        /\ rd[r].state = "none"

\* ------------------------------------------------------------------------
\* C6: for a chunk spec with at least one entry per dimension,
\* convert_chunks_for_zarr returns, per dimension, the minimum of
\* ZARR_BLOCK_SIZE and the maximum of the dimension's chunks and 1, a value
\* from 1 to ZARR_BLOCK_SIZE.
\* ------------------------------------------------------------------------
C6_UniformBlockShape ==
    (conv.stage \in {"returned", "raised"}
        /\ \A i \in 1..Len(conv.chunks) : Len(conv.chunks[i]) >= 1) =>
        /\ conv.stage = "returned"
        /\ Len(conv.result) = Len(conv.chunks)
        /\ conv.result = UniformBlockShape(conv.chunks)
        /\ \A i \in 1..Len(conv.result) :
              /\ 1 <= conv.result[i]
              /\ conv.result[i] <= ZARR_BLOCK_SIZE
              /\ \A j \in 1..Len(conv.chunks[i]) :
                    conv.result[i] >= Min(conv.chunks[i][j], ZARR_BLOCK_SIZE)

C6_Witness ==
    /\ conv.stage = "returned"
    /\ conv.chunks = << <<0>>, <<2, ZARR_BLOCK_SIZE + 1>> >>
    /\ conv.result = <<1, ZARR_BLOCK_SIZE>>

\* ------------------------------------------------------------------------
\* C7: a block inside the uniform grid is read over [b*B, (b+1)*B) in every
\* dimension; its element at in-block offset k is the stored element at
\* b*B + k where that index is inside the shape and zero elsewhere.
\* ------------------------------------------------------------------------
C7_BlockRoundTrip ==
    \A r \in Slots :
        (Done(r) /\ BlockRequest(r) /\ ArrayLike(Entry(r)) /\ WellFormed(r)
            /\ ~LengthMismatch(r) /\ InsideGrid(r)) =>
            LET B == UniformBlockShape(Entry(r).chunks)
                b == Coordinate(r)
                at(k) == [i \in 1..Len(B) |-> b[i] * B[i] + k[i]]
            IN  /\ resp[r].status = HTTP_200_OK
                /\ resp[r].kind = "block"
                /\ local[r].slices =
                      [i \in 1..Len(B) |-> <<b[i] * B[i], (b[i] + 1) * B[i]>>]
                /\ Len(resp[r].elems) = SeqProd(B)
                /\ \A k \in Indices(B) :
                      resp[r].elems[1 + Ravel(B, k)] =
                          IF \A i \in 1..Len(B) : at(k)[i] < Entry(r).shape[i]
                          THEN StoredValue(Entry(r), at(k))
                          ELSE 0

\* shape [25], chunks [[10, 10, 5]], block "2"
C7_Witness ==
    \E r \in Slots :
        /\ Done(r)
        /\ Entry(r).shape = <<25>>
        /\ req[r].block = BlockParam(<<"2">>)
        /\ local[r].slices = <<<<20, 30>>>>
        /\ resp[r].elems = <<21, 22, 23, 24, 25, 0, 0, 0, 0, 0>>

\* ------------------------------------------------------------------------
\* C8: under every interleaving, a finished request has the status and body
\* it has when served alone, and two finished requests for the same thing
\* have equal responses.
\* ------------------------------------------------------------------------
C8_RequestsIndependent ==
    /\ \A r \in Slots : Done(r) => resp[r] = ServedAlone(req[r])
    /\ \A r1, r2 \in Slots :
          (Done(r1) /\ Done(r2) /\ req[r1] = req[r2]) => resp[r1] = resp[r2]

C8_Witness ==
    /\ Done(1)
    /\ Done(2)
    /\ req[1] = req[2]
    /\ BlockRequest(1)
    /\ resp[1].kind = "block"
    /\ resp[2].elems = <<21, 22, 23, 24, 25, 0, 0, 0, 0, 0>>

\* ------------------------------------------------------------------------
\* C9: a request pads, encodes and answers with a block only after its own
\* storage read has returned; while the read is pending, or when it raised,
\* there is no padded array and no block body.
\* ------------------------------------------------------------------------
C9_EncodeAfterRead ==
    \A r \in Slots :
        /\ (resp[r].kind = "block" \/ local[r].array # EmptyArray) =>
              rd[r].state = "returned"
        /\ rd[r].state \in {"pending", "raised"} =>
              /\ resp[r].kind # "block"
              /\ resp[r].elems = << >>

C9_Witness ==
    /\ Done(1)
    /\ resp[1].kind = "block"
    /\ rd[1].state = "returned"
    /\ Done(2)
    /\ rd[2].state = "raised"
    /\ resp[2].status = HTTP_400_BAD_REQUEST

\* ------------------------------------------------------------------------
\* C10: a listing holds one URL per child, in the children's order, each the
\* request URL without its query string and trailing slashes, then "/" and
\* the child's name; no children give the empty array.
\* ------------------------------------------------------------------------
IsPrefix(p, s) == Len(p) <= Len(s) /\ SubSeq(s, 1, Len(p)) = p

\* base is url cut before its first "?" and before the slashes that end that part
IsBaseOf(base, url) ==
    /\ IsPrefix(base, url)
    /\ \A i \in 1..Len(base) : base[i] # "?"
    /\ base # << >> => base[Len(base)] # "/"
    /\ \E n \in Len(base)..Len(url) :
          /\ \A i \in (Len(base) + 1)..n : url[i] = "/"
          /\ n = Len(url) \/ url[n + 1] = "?"

C10_ListingUrls ==
    \A r \in Slots :
        (Done(r) /\ req[r].endpoint = "data" /\ GroupLike(Entry(r))) =>
            /\ resp[r].status = HTTP_200_OK
            /\ resp[r].kind = "list"
            /\ Len(resp[r].urls) = Len(Entry(r).children)
            /\ \A i \in 1..Len(Entry(r).children) :
                  \E base \in {SubSeq(req[r].url, 1, n) : n \in 0..Len(req[r].url)} :
                      /\ IsBaseOf(base, req[r].url)
                      /\ resp[r].urls[i] = base \o <<"/">> \o Entry(r).children[i]

\* a container at ".../f//?b/" with the children a and b
C10_Witness ==
    \E r \in Slots :
        /\ Done(r)
        /\ Entry(r).family = "container"
        /\ req[r].url = <<"h", "/", "f", "/", "/", "?", "b", "/">>
        /\ resp[r].urls = << <<"h", "/", "f", "/", "a">>, <<"h", "/", "f", "/", "b">> >>

====
